---- MODULE Spec2Model ----
(***************************************************************************)
(* HTTP endpoint monitor: the Record Store (DatabaseService), the Probe    *)
(* Scheduler (PingService) and the Anomaly Analyzer                        *)
(* (AnomalyDetectionService), with the socket.io broadcaster they share.   *)
(*                                                                         *)
(* Time is a logical clock (Date.now()); a timestamp is the clock value at *)
(* which `new Date().toISOString()` was evaluated.  Every `await` of the   *)
(* source is a point where another callback may run, so every async        *)
(* function is cut into one action per await.                              *)
(***************************************************************************)
EXTENDS Integers, Sequences, FiniteSets, TLC

(* ------------------------------- bounds -------------------------------- *)
\* probe attempts (calls of performPing) in one behaviour
MaxProbes == 2
\* calls of PingService.start / AnomalyDetectionService.start in one behaviour
MaxStarts == 2
\* analysis cycles (calls of performAnalysis) in one behaviour
MaxCycles == 2
\* statements the storage engine may fail in one behaviour on an open database
MaxEngineFailures == 1
\* largest advance of the clock while one HTTP request is outstanding
MaxDelay == 1
\* the largest stored window an analysis cycle is run over
MaxWindow == 22
\* the most rows the store holds when it is queried
MaxRows == 3
\* the largest page size and the largest offset a query is issued with
MaxLimit == 2
MaxOffset == 2

(* --------------------------- program constants ------------------------- *)
\* performAnalysis: `recentRecords.length < 10` skips the cycle
MIN_RECORDS == 10
\* performAnalysis: getRecentRecords(24 * 60), in minutes
ANALYSIS_WINDOW == 1440
\* analyzeStatusCodes: records.slice(-20)
RECENT_SLICE == 20
\* analyzeStatusCodes: errorCodes.length >= 3
BURST_MIN_ERRORS == 3
\* analyzeErrorRates: hourRecords.length >= 5
HOUR_MIN_RECORDS == 5
\* DEFAULT_Z_SCORE_THRESHOLD = 2.5, as the fraction Z_NUM / Z_DEN
Z_NUM == 5
Z_DEN == 2
\* DEFAULT_RESPONSE_TIME_THRESHOLD
RESPONSE_TIME_THRESHOLD == 5000
\* clock units in an hour bucket (timestamp.substring(0, 13)) and in a day
MINUTES_PER_HOUR == 60
MINUTES_PER_DAY == 1440

ProbeIds == 1..MaxProbes
CycleIds == 1..MaxCycles

(* ------------------------------ sequences ------------------------------ *)
RECURSIVE SumLen(_)
\* length of the string a token sequence spells
SumLen(toks) == IF toks = <<>> THEN 0 ELSE Len(Head(toks)) + SumLen(Tail(toks))

Contains(toks, s) == \E i \in 1..Len(toks) : toks[i] = s

Range(s) == {s[i] : i \in 1..Len(s)}

(* ------------------------- the HTTP transport -------------------------- *)
\* What `await axios.post(...)` can do: resolve with a response, or reject
\* with a plain Error, with an AxiosError carrying no response (timeout), or
\* with an AxiosError carrying the HTTP response of a non-2xx status.
HttpOutcomes ==
  { [kind |-> "response", status |-> 200, ctype |-> "application/json",
     body |-> "ok", msg |-> "", axios |-> FALSE, code |-> "", hasResponse |-> TRUE],
    [kind |-> "response", status |-> 201, ctype |-> "text/html",
     body |-> "", msg |-> "", axios |-> FALSE, code |-> "", hasResponse |-> TRUE],
    [kind |-> "error", status |-> 0, ctype |-> "",
     body |-> "", msg |-> "ECONNREFUSED", axios |-> FALSE, code |-> "", hasResponse |-> FALSE],
    [kind |-> "error", status |-> 0, ctype |-> "",
     body |-> "", msg |-> "timeout exceeded", axios |-> TRUE, code |-> "ECONNABORTED",
     hasResponse |-> FALSE],
    [kind |-> "error", status |-> 500, ctype |-> "text/html",
     body |-> "oops", msg |-> "Request failed", axios |-> TRUE, code |-> "ERR_BAD_RESPONSE",
     hasResponse |-> TRUE] }

NoOutcome ==
  [kind |-> "none", status |-> 0, ctype |-> "", body |-> "", msg |-> "",
   axios |-> FALSE, code |-> "", hasResponse |-> FALSE]

\* the Error a rejected insertPingRecord throws into performPing's try block
DbError(m) ==
  [kind |-> "error", status |-> 0, ctype |-> "", body |-> "", msg |-> m,
   axios |-> FALSE, code |-> "", hasResponse |-> FALSE]

\* JSON.stringify(response.data) for a string body: the body between quotes
JSONstringify(body) == <<"\"", body, "\"">>

\* JSON.stringify({error, code, config}) of the catch block
ErrorDescriptor(err) ==
  <<"{\"error\":\"", err.msg, "\",\"code\":\"",
    IF err.axios /\ err.code # "" THEN err.code ELSE "UNKNOWN_ERROR",
    "\",\"config\":",
    IF err.axios THEN "{\"timeout\":30000}" ELSE "null", "}">>

(* ------------------------------- records ------------------------------- *)
NoRecord ==
  [timestamp |-> 0, responseData |-> <<>>, statusCode |-> 0, responseTime |-> 0,
   contentType |-> "", contentLength |-> 0, requestType |-> ""]

\* the mutant of SuccessRecord: the content type is taken to be JSON
SuccessRecord_assumesJson(resp, startTime, now, requestType) ==
  [timestamp |-> now,
   responseData |-> JSONstringify(resp.body),
   statusCode |-> resp.status,
   responseTime |-> now - startTime,
   contentType |-> "application/json",
   contentLength |-> SumLen(JSONstringify(resp.body)),
   requestType |-> requestType]

\* performPing, try block: the record of an attempt whose POST resolved
SuccessRecord(resp, startTime, now, requestType) ==
  [timestamp |-> now,
   responseData |-> JSONstringify(resp.body),
   statusCode |-> resp.status,
   responseTime |-> now - startTime,
   contentType |-> resp.ctype,
   contentLength |-> SumLen(JSONstringify(resp.body)),
   requestType |-> requestType]

\* the mutant of ErrorStatus: the response an error carries is ignored
ErrorStatus_zero(err) == 0

\* axiosError?.response?.status || 0
ErrorStatus(err) == IF err.axios /\ err.hasResponse THEN err.status ELSE 0

\* performPing, catch block: the record of an attempt that threw
ErrorRecord(err, startTime, now, requestType) ==
  [timestamp |-> now,
   responseData |-> ErrorDescriptor(err),
   statusCode |-> ErrorStatus(err),
   responseTime |-> now - startTime,
   contentType |-> "application/json",
   contentLength |-> 0,
   requestType |-> requestType]

\* the row the INSERT stores: the record's columns and the assigned id
Row(id, rec) ==
  [id |-> id, timestamp |-> rec.timestamp, responseData |-> rec.responseData,
   statusCode |-> rec.statusCode, responseTime |-> rec.responseTime,
   contentType |-> rec.contentType, contentLength |-> rec.contentLength,
   requestType |-> IF rec.requestType = "" THEN "auto" ELSE rec.requestType]

\* io.emit('newPingRecord', {id: recordId, ...record})
NewPingRecord(p, id, rec) ==
  [probe |-> p, id |-> id, timestamp |-> rec.timestamp,
   responseData |-> rec.responseData, statusCode |-> rec.statusCode,
   responseTime |-> rec.responseTime, contentType |-> rec.contentType,
   contentLength |-> rec.contentLength, requestType |-> rec.requestType]

(* -------------------------------- state -------------------------------- *)
VARIABLES
  db,          \* DatabaseService.db: "null", "open", or "closed" (close() keeps the handle)
  lastClose,   \* how the last close() settled: "none", "resolved", "rejected"
  table,       \* ping_records: the rows, in the order they were inserted
  lastId,      \* the AUTOINCREMENT sequence of ping_records
  failures,    \* statements the storage engine has failed so far
  query,       \* the call of getPingRecords in flight, and how the last one ended
  call,        \* the call of getRecentRecords, getStatistics or GET /anomaly-stats
               \* in flight, and how the last one ended
  clock,       \* Date.now()
  probe,       \* the calls of performPing: probe[p] is the state of attempt p
  nProbes,     \* attempts started so far
  issued,      \* inserts issued so far (db.run called)
  returned,    \* the inserts that resolved, in the order they resolved: the attempt,
               \* the insert's place in the order of issue, the row, the id handed
               \* back, and the number of inserts issued by then
  events,      \* the 'newPingRecord' events published, in order
  pInterval,   \* PingService.interval: 0 is null, else the timer handle
  pTimers,     \* the armed setInterval timers of the PingService
  pHandles,    \* timer handles the PingService has created so far
  pCleared,    \* the handle the last stop() cleared, 0 if none
  pAtStop,     \* attempts of the cleared timer in flight when stop() returned
  pAfterStop,  \* attempts of the cleared timer that settled after stop() returned
  cycle,       \* the calls of performAnalysis: cycle[c] is the state of cycle c
  nCycles,     \* analysis cycles started so far
  anomalies,   \* the 'anomaly' events published, in order
  aInterval,   \* AnomalyDetectionService.interval: 0 is null, else the timer handle
  aTimers,     \* the armed setInterval timers of the AnomalyDetectionService
  aHandles,    \* timer handles the AnomalyDetectionService has created so far
  aCleared,    \* the handle the last stop() of the analyzer cleared, 0 if none
  aAtStop,     \* cycles in flight when that stop() returned
  aAfterStop   \* cycles of the cleared timer that settled after that stop() returned

storeVars == <<db, lastClose, table, lastId, failures, query, call>>
pingVars == <<clock, probe, nProbes, issued, returned, events, pInterval, pTimers,
              pHandles, pCleared, pAtStop, pAfterStop>>
anomalyVars == <<cycle, nCycles, anomalies, aInterval, aTimers, aHandles, aCleared,
                 aAtStop, aAfterStop>>
vars == <<storeVars, pingVars, anomalyVars>>

IdleProbe ==
  [pc |-> "idle", requestType |-> "", origin |-> 0, startTime |-> 0,
   http |-> NoOutcome, rec |-> NoRecord, seq |-> 0, dbAtIssue |-> "",
   nFail |-> 0]

\* the filters of getPingRecords with every option left out; an option is
\* <<>> when it is undefined and <<v>> when it has the value v
NoFilters ==
  [statusCode |-> <<>>, minResponseTime |-> <<>>, maxResponseTime |-> <<>>,
   startTime |-> <<>>, endTime |-> <<>>]

IdleQuery ==
  [pc |-> "idle", route |-> FALSE, limit |-> 0, offset |-> 0, filters |-> NoFilters,
   dbAtIssue |-> "", asked |-> <<>>, answered |-> <<>>, total |-> 0, records |-> <<>>,
   hasMore |-> FALSE]

\* a number of a JSON answer that may be NaN
Number(v) == [nan |-> FALSE, value |-> v]
NaN == [nan |-> TRUE, value |-> 0]

\* the statistics before any is computed
NoStats ==
  [totalRequests |-> 0, averageResponseTime |-> Number(0), successRate |-> 0,
   statusCodeDistribution |-> <<>>]

\* the answer of GET /anomaly-stats before it is given
NoSnapshot ==
  [count |-> 0, mean |-> 0, min |-> 0, max |-> 0, errorRate |-> 0, totalRequests |-> 0]

IdleCall ==
  [op |-> "", pc |-> "idle", arg |-> 0, dbAtIssue |-> "", error |-> "",
   rows |-> <<>>, stats |-> NoStats, snapshot |-> NoSnapshot]

IdleCycle ==
  [pc |-> "idle", origin |-> 0, dbAtIssue |-> "", emitted |-> 0,
   readOk |-> FALSE, read |-> <<>>, published |-> <<>>]

Init ==
  /\ db = "null"
  /\ lastClose = "none"
  /\ table = <<>>
  /\ lastId = 0
  /\ failures = 0
  /\ query = IdleQuery
  /\ call = IdleCall
  /\ clock = 0
  /\ probe = [p \in ProbeIds |-> IdleProbe]
  /\ nProbes = 0
  /\ issued = 0
  /\ returned = <<>>
  /\ events = <<>>
  /\ pInterval = 0
  /\ pTimers = {}
  /\ pHandles = 0
  /\ pCleared = 0
  /\ pAtStop = {}
  /\ pAfterStop = {}
  /\ cycle = [c \in CycleIds |-> IdleCycle]
  /\ nCycles = 0
  /\ anomalies = <<>>
  /\ aInterval = 0
  /\ aTimers = {}
  /\ aHandles = 0
  /\ aCleared = 0
  /\ aAtStop = {}
  /\ aAfterStop = {}

InFlight(pr) == pr.pc \in {"http", "insert", "insertError"}
Settled(pr) == pr.pc \in {"resolved", "rejected"}

(* --------------------------- the Record Store --------------------------- *)
\* initialize(): `this.db = new sqlite3.Database(...)`, then createTables
DatabaseService_initialize ==
  /\ db = "null"
  /\ db' = "open"
  /\ UNCHANGED <<call, lastClose, table, lastId, failures, query, pingVars, anomalyVars>>

\* close(): resolves at once without a handle; otherwise db.close(), which
\* fails on a handle that is already closed.  The field `db` is never reset.
DatabaseService_close ==
  /\ lastClose' = IF db = "closed" THEN "rejected" ELSE "resolved"
  /\ db' = IF db = "null" THEN "null" ELSE "closed"
  /\ UNCHANGED <<call, table, lastId, failures, query, pingVars, anomalyVars>>

\* CREATE TABLE ping_records (id INTEGER PRIMARY KEY AUTOINCREMENT, ...)
AutoIncrement(last) == last + 1

\* the mutant of ResolvedId: the callback resolves with `this.changes`
ResolvedId_changes(rowid) == 1

\* insertPingRecord's callback: resolve(this.lastID)
ResolvedId(rowid) == rowid

(* -------------------------- the Probe Scheduler ------------------------- *)
\* performPing up to `await axios.post(...)`
NewProbe(requestType, origin, now) ==
  [IdleProbe EXCEPT !.pc = "http", !.requestType = requestType,
                    !.origin = origin, !.startTime = now]

\* insertPingRecord as performPing calls it: with no handle the promise
\* rejects at once, otherwise db.run is issued and the attempt awaits it
IssueInsert(pr, rec, stage, n) ==
  [pr EXCEPT !.pc = stage, !.rec = rec, !.seq = n, !.dbAtIssue = db]

\* the mutant of InnerCatch: no try/catch around the insert of the error record
InnerCatch_absent(pr) == [pr EXCEPT !.pc = "rejected", !.rec = NoRecord,
                                    !.nFail = pr.nFail + 1]

\* performPing, `catch (dbError)`: the failure to store the error record is
\* logged and swallowed, and the attempt ends
InnerCatch(pr) == [pr EXCEPT !.pc = "resolved", !.rec = NoRecord,
                             !.nFail = pr.nFail + 1]

\* the mutant of ClearInterval: stop() forgets the handle without clearing it
ClearInterval_forgotten(timers, h) == timers

\* clearInterval(this.interval)
ClearInterval(timers, h) == timers \ {h}

\* the mutant of Broadcast: the event is dropped
Broadcast_dropped(evs, e) == evs

\* io.emit('newPingRecord', ...)
Broadcast(evs, e) == Append(evs, e)

\* the mutant of EmitsOnReject: the event is published whether or not the
\* insert resolved
EmitsOnReject_always == TRUE

\* performPing: io.emit follows `await insertPingRecord` inside the try, so a
\* rejected insert publishes nothing
EmitsOnReject == FALSE

\* start(): one attempt at once, then setInterval; no check of this.interval
PingService_start ==
  /\ nProbes < MaxProbes
  /\ pHandles < MaxStarts
  /\ probe' = [probe EXCEPT ![nProbes + 1] = NewProbe("auto", pHandles + 1, clock)]
  /\ nProbes' = nProbes + 1
  /\ pHandles' = pHandles + 1
  /\ pInterval' = pHandles + 1
  /\ pTimers' = pTimers \cup {pHandles + 1}
  /\ UNCHANGED <<storeVars, clock, issued, returned, events, pCleared, pAtStop, pAfterStop, anomalyVars>>

\* the mutant of PingService_stop: stop() also abandons the attempts in flight
PingService_stop_cancelling ==
  IF pInterval # 0
  THEN /\ pTimers' = ClearInterval(pTimers, pInterval)
       /\ pInterval' = 0
       /\ pCleared' = pInterval
       /\ pAtStop' = {p \in ProbeIds : InFlight(probe[p])}
       /\ pAfterStop' = {}
       /\ probe' = [p \in ProbeIds |->
                     IF InFlight(probe[p])
                     THEN [probe[p] EXCEPT !.pc = "resolved", !.rec = NoRecord]
                     ELSE probe[p]]
       /\ UNCHANGED <<storeVars, clock, nProbes, issued, returned, events, pHandles, anomalyVars>>
  ELSE UNCHANGED vars

\* stop(): with a timer in this.interval, clears it and resets the field;
\* otherwise nothing.  Attempts in flight are left alone.
PingService_stop ==
  IF pInterval # 0
  THEN /\ pTimers' = ClearInterval(pTimers, pInterval)
       /\ pInterval' = 0
       /\ pCleared' = pInterval
       /\ pAtStop' = {p \in ProbeIds : InFlight(probe[p])}
       /\ pAfterStop' = {}
       /\ UNCHANGED <<storeVars, clock, probe, nProbes, issued, returned, events, pHandles, anomalyVars>>
  ELSE UNCHANGED vars

\* a tick of an armed timer: the setInterval callback calls performPing()
PingTimerFire(h) ==
  /\ h \in pTimers
  /\ nProbes < MaxProbes
  /\ probe' = [probe EXCEPT ![nProbes + 1] = NewProbe("auto", h, clock)]
  /\ nProbes' = nProbes + 1
  /\ UNCHANGED <<storeVars, clock, issued, returned, events, pInterval, pTimers,
                 pHandles, pCleared, pAtStop, pAfterStop, anomalyVars>>

\* pingOnce(): performPing('manual'), awaited by the caller
PingService_pingOnce ==
  /\ nProbes < MaxProbes
  /\ probe' = [probe EXCEPT ![nProbes + 1] = NewProbe("manual", 0, clock)]
  /\ nProbes' = nProbes + 1
  /\ UNCHANGED <<storeVars, clock, issued, returned, events, pInterval, pTimers,
                 pHandles, pCleared, pAtStop, pAfterStop, anomalyVars>>

\* the attempts of the cleared timer that settled since stop() cleared it
SettledAfterStop(p) ==
  IF pCleared # 0 /\ probe[p].origin = pCleared THEN pAfterStop \cup {p} ELSE pAfterStop

\* what a rejected insert publishes
RejectEvents(evs, p, rec) ==
  IF EmitsOnReject THEN Broadcast(evs, NewPingRecord(p, 0, rec)) ELSE evs

\* performPing from the settling of `await axios.post(...)` to its next
\* await: the record is built from the response (try block) or from the
\* error (catch block) and insertPingRecord is called.  Without a database
\* handle insertPingRecord rejects at once: the try block falls into the
\* catch block, whose own insert rejects too and is swallowed.
HttpSettle(p, out, d) ==
  /\ probe[p].pc = "http"
  /\ LET now == clock + d
         pr == [probe[p] EXCEPT !.http = out]
         ok == out.kind = "response"
         rec == IF ok THEN SuccessRecord(out, pr.startTime, now, pr.requestType)
                      ELSE ErrorRecord(out, pr.startTime, now, pr.requestType)
         rec2 == ErrorRecord(DbError("Database not initialized"), pr.startTime, now,
                             pr.requestType)
     IN /\ clock' = now
        /\ IF db = "null"
           THEN /\ probe' = [probe EXCEPT ![p] =
                               IF ok THEN InnerCatch([pr EXCEPT !.nFail = pr.nFail + 1])
                                     ELSE InnerCatch(pr)]
                /\ events' = IF ok THEN RejectEvents(RejectEvents(events, p, rec), p, rec2)
                                   ELSE RejectEvents(events, p, rec)
                /\ issued' = issued
                /\ pAfterStop' = SettledAfterStop(p)
           ELSE /\ probe' = [probe EXCEPT ![p] =
                               IssueInsert(pr, rec, IF ok THEN "insert" ELSE "insertError",
                                           issued + 1)]
                /\ events' = events
                /\ issued' = issued + 1
                /\ pAfterStop' = pAfterStop
  /\ UNCHANGED <<storeVars, nProbes, returned, pInterval, pTimers, pHandles, pCleared,
                 pAtStop, anomalyVars>>

\* The storage engine runs the INSERT some attempt awaits, and the callback
\* of db.run settles insertPingRecord.  The database runs in sqlite3's default
\* (parallel) mode: the statements issued and not yet run are run in any
\* order.  A statement issued on a closed handle fails; one issued on an open
\* handle may fail in the engine (`if (err) reject(err)`).
\*   resolved: the row is stored under the next id, the attempt publishes
\*             the record with that id and ends;
\*   rejected in the try block: the catch block builds the error record
\*             and issues its insert;
\*   rejected in the catch block: swallowed by the inner catch.
DbRun(p, ok) ==
  /\ probe[p].pc \in {"insert", "insertError"}
  /\ ok => probe[p].dbAtIssue = "open"
  /\ (~ok /\ probe[p].dbAtIssue = "open") => failures < MaxEngineFailures
  /\ LET pr == probe[p]
         id == AutoIncrement(lastId)
         rec2 == ErrorRecord(DbError("SQLITE_ERROR"), pr.startTime, clock, pr.requestType)
     IN IF ok
        THEN /\ lastId' = id
             /\ table' = Append(table, Row(id, pr.rec))
             /\ failures' = failures
             /\ returned' = Append(returned, [probe |-> p, seq |-> pr.seq, rowid |-> id,
                                              id |-> ResolvedId(id), issuedBefore |-> issued])
             /\ events' = Broadcast(events, NewPingRecord(p, ResolvedId(id), pr.rec))
             /\ probe' = [probe EXCEPT ![p] = [pr EXCEPT !.pc = "resolved",
                                                         !.rec = NoRecord]]
             /\ issued' = issued
             /\ pAfterStop' = SettledAfterStop(p)
        ELSE /\ failures' = IF pr.dbAtIssue = "open" THEN failures + 1 ELSE failures
             /\ events' = RejectEvents(events, p, pr.rec)
             /\ UNCHANGED <<lastId, table, returned>>
             /\ IF pr.pc = "insert"
                THEN /\ probe' = [probe EXCEPT ![p] =
                                    IssueInsert([pr EXCEPT !.nFail = pr.nFail + 1], rec2,
                                                "insertError", issued + 1)]
                     /\ issued' = issued + 1
                     /\ pAfterStop' = pAfterStop
                ELSE /\ probe' = [probe EXCEPT ![p] = InnerCatch(pr)]
                     /\ issued' = issued
                     /\ pAfterStop' = SettledAfterStop(p)
  /\ UNCHANGED <<call, db, lastClose, query, clock, nProbes, pInterval, pTimers, pHandles, pCleared,
                 pAtStop, anomalyVars>>


(* ------------------------- reading the store --------------------------- *)
\* new Date().toISOString(): "YYYY-MM-DDTHH:MM:SS.sssZ", as the day, the
\* character 'T' (code 84) and the time of day
ISOString(t) == <<t \div MINUTES_PER_DAY, 84, t % MINUTES_PER_DAY>>

\* SQLite's datetime(): "YYYY-MM-DD HH:MM:SS", with a space (code 32)
SqliteDatetime(t) == <<t \div MINUTES_PER_DAY, 32, t % MINUTES_PER_DAY>>

\* a >= b for two texts of the same shape, compared as SQLite compares TEXT
TextGeq(a, b) ==
  \/ a = b
  \/ \E i \in 1..Len(a) : a[i] > b[i] /\ \A j \in 1..(i - 1) : a[j] = b[j]

\* WHERE timestamp >= datetime('now', '-N minutes')
RecentRows(tbl, now, minutes) ==
  {r \in Range(tbl) : TextGeq(ISOString(r.timestamp), SqliteDatetime(now - minutes))}

RECURSIVE Orderings(_)
\* ORDER BY timestamp DESC: the orders SQLite may return the rows in (rows of
\* equal timestamp come in any order)
Orderings(S) ==
  IF S = {} THEN {<<>>}
  ELSE UNION {{<<r>> \o t : t \in Orderings(S \ {r})} :
              r \in {x \in S : \A y \in S : TextGeq(ISOString(x.timestamp),
                                                     ISOString(y.timestamp))}}

\* getRecentRecords(minutes), once the statement has run
getRecentRecords(tbl, now, minutes) == Orderings(RecentRows(tbl, now, minutes))

(* ------------------------ filtered, paginated reads --------------------- *)
\* `if (filters.x)` for a number that may be undefined
Truthy(option) == option # <<>> /\ option[1] # 0

\* `if (filters.x)` for an ISO date string that may be undefined
TruthyText(option) == option # <<>>

\* whereClause with its params, applied to a row
WhereClause(filters, r) ==
  /\ Truthy(filters.statusCode) => r.statusCode = filters.statusCode[1]
  /\ Truthy(filters.minResponseTime) => r.responseTime >= filters.minResponseTime[1]
  /\ Truthy(filters.maxResponseTime) => r.responseTime <= filters.maxResponseTime[1]
  /\ TruthyText(filters.startTime)
       => TextGeq(ISOString(r.timestamp), ISOString(filters.startTime[1]))
  /\ TruthyText(filters.endTime)
       => TextGeq(ISOString(filters.endTime[1]), ISOString(r.timestamp))

\* SELECT COUNT(*) as total FROM ping_records <whereClause>
countSql(tbl, filters) == Cardinality({r \in Range(tbl) : WhereClause(filters, r)})

\* SELECT ... <whereClause> ORDER BY timestamp DESC LIMIT ? OFFSET ?: the
\* pages SQLite may return
dataSql(tbl, filters, limit, offset) ==
  {SubSeq(rows, offset + 1, IF offset + limit < Len(rows) THEN offset + limit
                            ELSE Len(rows)) :
     rows \in Orderings({r \in Range(tbl) : WhereClause(filters, r)})}

\* pingQuerySchema.validate(req.query)
pingQuerySchema(limit, offset, filters) ==
  /\ limit \in 1..1000
  /\ offset >= 0
  /\ filters.statusCode # <<>> => filters.statusCode[1] \in 100..599
  /\ filters.minResponseTime # <<>> => filters.minResponseTime[1] >= 0
  /\ filters.maxResponseTime # <<>> => filters.maxResponseTime[1] >= 0

\* pagination.hasMore of GET /pings
hasMore(limit, offset, total) == offset + limit < total

\* getPingRecords up to db.get(countSql, ...): without a database handle the
\* promise rejects at once
NewQuery(route, limit, offset, filters) ==
  [IdleQuery EXCEPT !.pc = IF db = "null" THEN "rejected" ELSE "count",
                    !.route = route, !.limit = limit, !.offset = offset,
                    !.filters = filters, !.dbAtIssue = db, !.asked = table]

\* a call of getPingRecords(limit, offset, filters), the first of the run
DatabaseService_getPingRecords(limit, offset, filters) ==
  /\ query.pc = "idle"
  /\ query' = NewQuery(FALSE, limit, offset, filters)
  /\ UNCHANGED <<call, db, lastClose, table, lastId, failures, pingVars, anomalyVars>>

\* GET /pings: the query is validated, then getPingRecords is awaited; an
\* invalid query is answered 400 and never reaches the store
Route_getPings(limit, offset, filters) ==
  /\ query.pc = "idle"
  /\ query' = IF pingQuerySchema(limit, offset, filters)
              THEN NewQuery(TRUE, limit, offset, filters)
              ELSE [IdleQuery EXCEPT !.pc = "invalid", !.route = TRUE, !.limit = limit,
                                     !.offset = offset, !.filters = filters]
  /\ UNCHANGED <<call, db, lastClose, table, lastId, failures, pingVars, anomalyVars>>

\* the callback of db.get(countSql, ...): on an error the promise rejects,
\* otherwise db.all(dataSql, ...) is issued
QueryCount(ok) ==
  /\ query.pc = "count"
  /\ ok => query.dbAtIssue = "open"
  /\ (~ok /\ query.dbAtIssue = "open") => failures < MaxEngineFailures
  /\ failures' = IF ~ok /\ query.dbAtIssue = "open" THEN failures + 1 ELSE failures
  /\ query' = IF ok
              THEN [query EXCEPT !.pc = "page", !.total = countSql(table, query.filters),
                                 !.dbAtIssue = db]
              ELSE [query EXCEPT !.pc = "rejected"]
  /\ UNCHANGED <<call, db, lastClose, table, lastId, pingVars, anomalyVars>>

\* the callback of db.all(dataSql, ...): the promise resolves with the page
\* and the total counted before; GET /pings adds hasMore
QueryPage(ok) ==
  /\ query.pc = "page"
  /\ ok => query.dbAtIssue = "open"
  /\ (~ok /\ query.dbAtIssue = "open") => failures < MaxEngineFailures
  /\ failures' = IF ~ok /\ query.dbAtIssue = "open" THEN failures + 1 ELSE failures
  /\ IF ok
     THEN \E page \in dataSql(table, query.filters, query.limit, query.offset) :
            query' = [query EXCEPT !.pc = "resolved", !.records = page,
                                   !.answered = table,
                                   !.hasMore = query.route
                                               /\ hasMore(query.limit, query.offset,
                                                          query.total)]
     ELSE query' = [query EXCEPT !.pc = "rejected"]
  /\ UNCHANGED <<call, db, lastClose, table, lastId, pingVars, anomalyVars>>

(* --------------------- recent records and statistics -------------------- *)
RECURSIVE SumResponseTime(_)
SumResponseTime(S) ==
  IF S = {} THEN 0
  ELSE LET r == CHOOSE x \in S : TRUE
       IN r.responseTime + SumResponseTime(S \ {r})

\* Math.round(num / den) for num >= 0 and den > 0, with the integer kept
MathRound_truncating(num, den) == num \div den

\* Math.round(num / den) for num >= 0 and den > 0
MathRound(num, den) == (2 * num + den) \div (2 * den)

\* WHERE timestamp >= datetime('now', '-N hours')
StatisticsRows(tbl, now, hours) == RecentRows(tbl, now, hours * MINUTES_PER_HOUR)

\* the rows of the GROUP BY status_code: COUNT(*), AVG(response_time) kept
\* as the sum it is the quotient of, and the SUM of the rows under 400
GroupRows(S) ==
  {[status_code |-> c,
    totalRequests |-> Cardinality({r \in S : r.statusCode = c}),
    sum |-> SumResponseTime({r \in S : r.statusCode = c}),
    successCount |-> IF c < 400 THEN Cardinality({r \in S : r.statusCode = c}) ELSE 0] :
     c \in {r.statusCode : r \in S}}

RECURSIVE Reduce(_, _)
\* rows.reduce((sum, row) => sum + row[field], 0)
Reduce(rows, field) ==
  IF rows = {} THEN 0
  ELSE LET row == CHOOSE x \in rows : TRUE
       IN row[field] + Reduce(rows \ {row}, field)

\* the callback of getStatistics: with no row the average is 0 / 0
getStatistics(tbl, now, hours) ==
  LET rows == GroupRows(StatisticsRows(tbl, now, hours))
      totalRequests == Reduce(rows, "totalRequests")
      successCount == Reduce(rows, "successCount")
  IN [totalRequests |-> totalRequests,
      averageResponseTime |-> IF totalRequests = 0 THEN NaN
                              ELSE Number(MathRound(Reduce(rows, "sum"), totalRequests)),
      successRate |-> IF totalRequests > 0 THEN MathRound(100 * successCount, totalRequests)
                      ELSE 0,
      statusCodeDistribution |->
        [c \in {row.status_code : row \in rows} |->
           (CHOOSE row \in rows : row.status_code = c).totalRequests]]

\* a read up to db.all(sql, ...): without a database handle the promise
\* rejects at once
NewCall(op, arg) ==
  IF db = "null"
  THEN [IdleCall EXCEPT !.op = op, !.arg = arg, !.pc = "rejected", !.dbAtIssue = db,
                        !.error = "Database not initialized"]
  ELSE [IdleCall EXCEPT !.op = op, !.arg = arg, !.pc = "pending", !.dbAtIssue = db]

\* a call of getRecentRecords(minutes), the first read of the run
DatabaseService_getRecentRecords(minutes) ==
  /\ call.pc = "idle"
  /\ call' = NewCall("recent", minutes)
  /\ UNCHANGED <<db, lastClose, table, lastId, failures, query, pingVars, anomalyVars>>

\* a call of getStatistics(hours), the first read of the run
DatabaseService_getStatistics(hours) ==
  /\ call.pc = "idle"
  /\ call' = NewCall("statistics", hours)
  /\ UNCHANGED <<db, lastClose, table, lastId, failures, query, pingVars, anomalyVars>>

\* GET /anomaly-stats: the handler answers with placeholder data
Route_getAnomalyStats ==
  /\ call.pc = "idle"
  /\ call' = [IdleCall EXCEPT !.op = "anomaly-stats", !.pc = "resolved",
                              !.dbAtIssue = db,
                              !.snapshot = [count |-> 0, mean |-> 0, min |-> 0, max |-> 0,
                                            errorRate |-> 0, totalRequests |-> 0]]
  /\ UNCHANGED <<db, lastClose, table, lastId, failures, query, pingVars, anomalyVars>>

\* the callback of db.all of getRecentRecords or getStatistics: a statement
\* issued on a closed handle fails, one issued on an open handle may fail
ReadSettle(ok) ==
  /\ call.pc = "pending"
  /\ ok => call.dbAtIssue = "open"
  /\ (~ok /\ call.dbAtIssue = "open") => failures < MaxEngineFailures
  /\ failures' = IF ~ok /\ call.dbAtIssue = "open" THEN failures + 1 ELSE failures
  /\ IF ~ok
     THEN call' = [call EXCEPT !.pc = "rejected",
                               !.error = IF call.dbAtIssue = "open" THEN "SQLITE_ERROR"
                                         ELSE "SQLITE_MISUSE: Database is closed"]
     ELSE IF call.op = "recent"
          THEN \E rows \in getRecentRecords(table, clock, call.arg) :
                 call' = [call EXCEPT !.pc = "resolved", !.rows = rows]
          ELSE call' = [call EXCEPT !.pc = "resolved",
                                    !.stats = getStatistics(table, clock, call.arg)]
  /\ UNCHANGED <<db, lastClose, table, lastId, query, pingVars, anomalyVars>>

(* ------------------------- the Anomaly Analyzer ------------------------- *)
RECURSIVE SumOf(_)
SumOf(xs) == IF xs = <<>> THEN 0 ELSE Head(xs) + SumOf(Tail(xs))

RECURSIVE SelectSeqBy(_, _)
\* records.filter(...) with the records of status 0 taken for errors too
ErrorsOf_countsNoResponse(records, from) ==
  Cardinality({i \in from..Len(records) :
                 records[i].statusCode >= 400 \/ records[i].statusCode = 0})

\* records.filter(r => r.statusCode >= 400), and the like
ErrorsOf(records, from) ==
  Cardinality({i \in from..Len(records) : records[i].statusCode >= 400})

SelectSeqBy(records, h) ==
  IF records = <<>> THEN <<>>
  ELSE IF Head(records).timestamp \div MINUTES_PER_HOUR = h
       THEN <<Head(records)>> \o SelectSeqBy(Tail(records), h)
       ELSE SelectSeqBy(Tail(records), h)

RECURSIVE Gcd(_, _)
Gcd(a, b) == IF b = 0 THEN a ELSE Gcd(b, a % b)

RECURSIVE GcdOf(_)
\* the largest unit all the values are multiples of (1 when all are 0)
GcdOf(xs) == IF xs = <<>> THEN 0 ELSE Gcd(Head(xs), GcdOf(Tail(xs)))

\* calculateRollingStats, kept exact.  The values are counted in their common
\* unit u (a z-score does not change with the unit), and the statistics are
\* n = count, sum = the sum of the values, and v = n * (sum of squares) -
\* sum^2, so that mean = u * sum / n and stdDev = u * sqrt(v) / n.
calculateRollingStats(values) ==
  LET u == IF GcdOf(values) = 0 THEN 1 ELSE GcdOf(values)
      scaled == [i \in 1..Len(values) |-> values[i] \div u]
  IN [count |-> Len(values),
      unit |-> u,
      sum |-> SumOf(scaled),
      v |-> Len(values) * SumOf([i \in 1..Len(values) |-> scaled[i] * scaled[i]])
              - SumOf(scaled) * SumOf(scaled)]

\* zScore > num / den, with the comparison left out
ZScoreAbove_ignored(x, stats, num, den) == TRUE

\* zScore > num / den, for zScore = |x - mean| / stdDev; with stdDev = 0 the
\* quotient is NaN (or Infinity, for x # mean, which no value of a constant
\* list is) and the comparison is false
ZScoreAbove(x, stats, num, den) ==
  LET d == stats.count * (x \div stats.unit) - stats.sum
  IN /\ stats.v > 0
     /\ den * den * d * d > num * num * stats.v

RECURSIVE LatencyEvents(_, _)
LatencyEvents(records, stats) ==
  IF records = <<>> THEN <<>>
  ELSE LET r == Head(records)
       IN (IF ZScoreAbove(r.responseTime, stats, Z_NUM, Z_DEN)
              /\ r.responseTime > RESPONSE_TIME_THRESHOLD
           THEN <<[type |-> "response_time",
                   severity |-> IF ZScoreAbove(r.responseTime, stats, 7, 2) THEN "high"
                                ELSE IF ZScoreAbove(r.responseTime, stats, 3, 1)
                                     THEN "medium" ELSE "low",
                   value |-> <<r.responseTime, 1>>,
                   threshold |-> <<stats.unit, stats.sum, stats.v, stats.count>>,
                   timestamp |-> r.timestamp,
                   recordId |-> r.id]>>
           ELSE <<>>) \o LatencyEvents(Tail(records), stats)

\* analyzeResponseTimes: one 'response_time' event per outlier, in the order
\* of the records
analyzeResponseTimes(records) ==
  LatencyEvents(records,
                calculateRollingStats([i \in 1..Len(records) |-> records[i].responseTime]))

\* analyzeStatusCodes with the rate taken over 20 whatever the slice holds
analyzeStatusCodes_overTwenty(records, now) ==
  LET from == IF Len(records) > RECENT_SLICE THEN Len(records) - RECENT_SLICE + 1 ELSE 1
      errors == ErrorsOf(records, from)
  IN IF errors >= BURST_MIN_ERRORS
     THEN <<[type |-> "status_code",
             severity |-> IF 100 * errors >= 50 * RECENT_SLICE THEN "high"
                          ELSE IF 100 * errors >= 25 * RECENT_SLICE THEN "medium"
                               ELSE "low",
             value |-> <<100 * errors, RECENT_SLICE>>,
             threshold |-> <<1, 20, 0, 1>>,
             timestamp |-> now,
             recordId |-> 0]>>
     ELSE <<>>

\* analyzeStatusCodes: records.slice(-20), at least 3 of them errors
analyzeStatusCodes(records, now) ==
  LET from == IF Len(records) > RECENT_SLICE THEN Len(records) - RECENT_SLICE + 1 ELSE 1
      size == Len(records) - from + 1
      errors == ErrorsOf(records, from)
  IN IF errors >= BURST_MIN_ERRORS
     THEN <<[type |-> "status_code",
             severity |-> IF 100 * errors >= 50 * size THEN "high"
                          ELSE IF 100 * errors >= 25 * size THEN "medium" ELSE "low",
             value |-> <<100 * errors, size>>,
             threshold |-> <<1, 20, 0, 1>>,
             timestamp |-> now,
             recordId |-> 0]>>
     ELSE <<>>

RECURSIVE HoursOf(_, _)
\* groupByHour: the keys of `grouped`, in the order they were first set
HoursOf(records, seen) ==
  IF records = <<>> THEN <<>>
  ELSE LET h == Head(records).timestamp \div MINUTES_PER_HOUR
       IN IF h \in seen THEN HoursOf(Tail(records), seen)
          ELSE <<h>> \o HoursOf(Tail(records), seen \cup {h})

RECURSIVE HourEvents(_, _)
HourEvents(records, hours) ==
  IF hours = <<>> THEN <<>>
  ELSE LET hourRecords == SelectSeqBy(records, Head(hours))
           errorCount == ErrorsOf(hourRecords, 1)
       IN (IF 100 * errorCount > 30 * Len(hourRecords)
              /\ Len(hourRecords) >= HOUR_MIN_RECORDS
           THEN <<[type |-> "error_rate",
                   severity |-> IF 100 * errorCount >= 50 * Len(hourRecords)
                                THEN "high" ELSE "medium",
                   value |-> <<100 * errorCount, Len(hourRecords)>>,
                   threshold |-> <<1, 30, 0, 1>>,
                   timestamp |-> Head(hours),
                   recordId |-> 0]>>
           ELSE <<>>) \o HourEvents(records, Tail(hours))

\* analyzeErrorRates looking at the first bucket only
analyzeErrorRates_firstBucket(records) ==
  HourEvents(records, SubSeq(HoursOf(records, {}), 1, 1))

\* analyzeErrorRates: one 'error_rate' event per hour bucket over the rate
analyzeErrorRates(records) == HourEvents(records, HoursOf(records, {}))

\* performAnalysis once getRecentRecords has resolved: the events published
AnalysisEvents_noSkip(records, now) ==
  analyzeResponseTimes(records) \o analyzeStatusCodes(records, now)
    \o analyzeErrorRates(records)

\* performAnalysis once getRecentRecords has resolved: the events published
AnalysisEvents(records, now) ==
  IF Len(records) < MIN_RECORDS THEN <<>>
  ELSE analyzeResponseTimes(records) \o analyzeStatusCodes(records, now)
         \o analyzeErrorRates(records)

CycleInFlight(cy) == cy.pc = "reading"

\* broadcastAnomaly with the events published before left out
PublishedBy_deduplicated(evs, before) ==
  SelectSeq(evs, LAMBDA e : \A k \in 1..Len(before) : before[k] # e)

\* the events of a cycle that broadcastAnomaly publishes, given the events
\* published before: all of them, nothing is remembered
PublishedBy(evs, before) == evs

\* the catch block of performAnalysis: the error is logged and the cycle ends
AnalysisCatch_rethrows(cy) == [cy EXCEPT !.pc = "rejected"]

\* the catch block of performAnalysis: the error is logged and the cycle ends
AnalysisCatch(cy) == [cy EXCEPT !.pc = "resolved"]

\* performAnalysis up to `await getRecentRecords(24 * 60)`: without a
\* database handle the read rejects at once and the catch block ends the
\* cycle; otherwise db.all is issued
NewCycle(origin) ==
  IF db = "null"
  THEN AnalysisCatch([IdleCycle EXCEPT !.origin = origin])
  ELSE [IdleCycle EXCEPT !.pc = "reading", !.origin = origin, !.dbAtIssue = db]

\* start(): one analysis at once, then setInterval; no check of this.interval
AnomalyDetectionService_start ==
  /\ nCycles < MaxCycles
  /\ aHandles < MaxStarts
  /\ cycle' = [cycle EXCEPT ![nCycles + 1] = NewCycle(aHandles + 1)]
  /\ nCycles' = nCycles + 1
  /\ aHandles' = aHandles + 1
  /\ aInterval' = aHandles + 1
  /\ aTimers' = aTimers \cup {aHandles + 1}
  /\ UNCHANGED <<storeVars, pingVars, anomalies, aCleared, aAtStop, aAfterStop>>

\* stop(): with a timer in this.interval, clears it and resets the field
AnomalyDetectionService_stop ==
  IF aInterval # 0
  THEN /\ aTimers' = ClearInterval(aTimers, aInterval)
       /\ aInterval' = 0
       /\ aCleared' = aInterval
       /\ aAtStop' = {c \in CycleIds : CycleInFlight(cycle[c])}
       /\ aAfterStop' = {}
       /\ UNCHANGED <<storeVars, pingVars, cycle, nCycles, anomalies, aHandles>>
  ELSE UNCHANGED vars

\* a tick of an armed timer of the analyzer
AnalysisTimerFire(h) ==
  /\ h \in aTimers
  /\ nCycles < MaxCycles
  /\ cycle' = [cycle EXCEPT ![nCycles + 1] = NewCycle(h)]
  /\ nCycles' = nCycles + 1
  /\ UNCHANGED <<storeVars, pingVars, anomalies, aInterval, aTimers, aHandles, aCleared,
                 aAtStop, aAfterStop>>

\* The storage engine runs the SELECT of getRecentRecords and performAnalysis
\* goes on from its await: the three analyses publish their events, or the
\* catch block logs the rejected read.  Nothing else runs in between: the
\* awaits of broadcastAnomaly wait for nothing.
AnalysisSettle(c, ok) ==
  /\ cycle[c].pc = "reading"
  /\ ok => cycle[c].dbAtIssue = "open"
  /\ (~ok /\ cycle[c].dbAtIssue = "open") => failures < MaxEngineFailures
  /\ failures' = IF ~ok /\ cycle[c].dbAtIssue = "open" THEN failures + 1 ELSE failures
  /\ IF ok
     THEN \E records \in getRecentRecords(table, clock, ANALYSIS_WINDOW) :
            LET evs == PublishedBy(AnalysisEvents(records, clock), anomalies)
            IN /\ anomalies' = anomalies \o evs
               /\ cycle' = [cycle EXCEPT ![c] = [@ EXCEPT !.pc = "resolved",
                                                          !.emitted = Len(evs),
                                                          !.readOk = TRUE,
                                                          !.read = records,
                                                          !.published = evs]]
     ELSE /\ anomalies' = anomalies
          /\ cycle' = [cycle EXCEPT ![c] = AnalysisCatch(@)]
  /\ aAfterStop' = IF aCleared # 0 /\ cycle[c].origin = aCleared
                   THEN aAfterStop \cup {c} ELSE aAfterStop
  /\ UNCHANGED <<call, db, lastClose, table, lastId, query, pingVars, nCycles, aInterval, aTimers,
                 aHandles, aCleared, aAtStop>>

Next ==
  \/ DatabaseService_initialize
  \/ PingService_pingOnce
  \/ PingService_start
  \/ \E h \in 1..MaxStarts : PingTimerFire(h)
  \/ PingService_stop
  \/ DatabaseService_close
  \/ \E p \in ProbeIds, out \in HttpOutcomes, d \in 1..MaxDelay : HttpSettle(p, out, d)
  \/ \E p \in ProbeIds, ok \in BOOLEAN : DbRun(p, ok)

\* the Probe Scheduler over the Record Store
Spec == Init /\ [][Next]_vars

\* the HTTP outcomes the two-producer specification draws from
ProducerOutcomes == {out \in HttpOutcomes : out.status \in {200, 500}}

NextProducers ==
  \/ DatabaseService_initialize
  \/ PingService_start
  \/ PingService_stop
  \/ \E h \in 1..MaxStarts : PingTimerFire(h)
  \/ \E p \in ProbeIds, out \in ProducerOutcomes, d \in 1..MaxDelay : HttpSettle(p, out, d)
  \/ \E p \in ProbeIds : DbRun(p, TRUE)
  \/ AnomalyDetectionService_start
  \/ AnomalyDetectionService_stop
  \/ \E h \in 1..MaxStarts : AnalysisTimerFire(h)
  \/ \E c \in CycleIds, ok \in BOOLEAN : AnalysisSettle(c, ok)

\* the two timer-driven producers over the Record Store
SpecProducers == Init /\ [][NextProducers]_vars

(* ------------------- analysis cycles over a stored window --------------- *)
\* the numbers of records the stored window is drawn with
WindowSizes ==
  {MIN_RECORDS - 1, MIN_RECORDS, RECENT_SLICE - 1, RECENT_SLICE + 1, MaxWindow}

\* response times of the stored window, in ms: all fast, all slow, the newest
\* record slow, the oldest and the newest slow, the newest at the threshold
ResponseProfiles == {"flat", "flatSlow", "oneSlow", "twoSlow", "atThreshold"}

ProfileResponseTime(profile, i, n) ==
  CASE profile = "flat" -> 100
    [] profile = "flatSlow" -> 8000
    [] profile = "oneSlow" -> IF i = n THEN 8000 ELSE 100
    [] profile = "twoSlow" -> IF i \in {1, n} THEN 8000 ELSE 100
    [] profile = "atThreshold" -> IF i = n THEN RESPONSE_TIME_THRESHOLD ELSE 100

\* status codes of the stored window: `count` records answered 500, the
\* newest or the oldest ones, the others 200
ErrorProfiles ==
  {[count |-> 0, newest |-> FALSE, status |-> 500],
   [count |-> 3, newest |-> FALSE, status |-> 500],
   [count |-> 3, newest |-> TRUE, status |-> 500],
   [count |-> 6, newest |-> TRUE, status |-> 500],
   [count |-> 11, newest |-> FALSE, status |-> 500]}

\* the stored window of attempts that got no response: every record has
\* status 0
NoResponseProfile == [count |-> MaxWindow, newest |-> FALSE, status |-> 0]

ProfileStatus(profile, i, n) ==
  IF (profile.newest /\ i > n - profile.count) \/ (~profile.newest /\ i <= profile.count)
  THEN profile.status ELSE 200

\* the stored windows drawn: every response profile without errors, every
\* error profile with fast responses, the window without responses, and one
\* with errors and a slow response
WindowProfiles ==
  [responses : ResponseProfiles, errors : {[count |-> 0, newest |-> FALSE, status |-> 500]}]
    \cup [responses : {"flat"}, errors : ErrorProfiles \cup {NoResponseProfile}]
    \cup {[responses |-> "oneSlow",
            errors |-> [count |-> 11, newest |-> FALSE, status |-> 500]]}

\* minutes between two consecutive records of the stored window
Steps == {1, 6}

\* the timestamp of the oldest record of the stored window: day 1, 00:00
WindowBase == MINUTES_PER_DAY

\* the time the analysis cycles run at: day 1, 23:59
AnalysisNow == WindowBase + MINUTES_PER_DAY - 1

\* ping_records after n inserts, one every `step` minutes
StoredWindow(n, responses, errors, step) ==
  [i \in 1..n |->
     Row(i, [timestamp |-> WindowBase + (i - 1) * step,
             responseData |-> <<"ok">>,
             statusCode |-> ProfileStatus(errors, i, n),
             responseTime |-> ProfileResponseTime(responses, i, n),
             contentType |-> "application/json",
             contentLength |-> 4,
             requestType |-> "auto"])]

\* the server with a database file that holds a stored window
InitAnalysis ==
  /\ db \in {"null", "open"}
  /\ lastClose = "none"
  /\ \E n \in WindowSizes, profile \in WindowProfiles, step \in Steps :
       /\ table = StoredWindow(n, profile.responses, profile.errors, step)
       /\ lastId = n
  /\ failures = 0
  /\ query = IdleQuery
  /\ call = IdleCall
  /\ clock = AnalysisNow
  /\ probe = [p \in ProbeIds |-> IdleProbe]
  /\ nProbes = 0
  /\ issued = 0
  /\ returned = <<>>
  /\ events = <<>>
  /\ pInterval = 0
  /\ pTimers = {}
  /\ pHandles = 0
  /\ pCleared = 0
  /\ pAtStop = {}
  /\ pAfterStop = {}
  /\ cycle = [c \in CycleIds |-> IdleCycle]
  /\ nCycles = 0
  /\ anomalies = <<>>
  /\ aInterval = 0
  /\ aTimers = {}
  /\ aHandles = 0
  /\ aCleared = 0
  /\ aAtStop = {}
  /\ aAfterStop = {}

NextAnalysis ==
  \/ DatabaseService_initialize
  \/ DatabaseService_close
  \/ AnomalyDetectionService_start
  \/ \E h \in 1..MaxStarts : AnalysisTimerFire(h)
  \/ \E c \in CycleIds, ok \in BOOLEAN : AnalysisSettle(c, ok)

\* the Anomaly Analyzer over a stored window
SpecAnalysis == InitAnalysis /\ [][NextAnalysis]_vars

(* ------------------------ queries over a stored log --------------------- *)
\* the status code and response time (ms) of the rows queried: an attempt
\* without a response, and a 404 received at once or after 100 ms
QueryOutcomes ==
  {[statusCode |-> 0, responseTime |-> 0], [statusCode |-> 404, responseTime |-> 0],
   [statusCode |-> 404, responseTime |-> 100]}

\* the timestamps of the rows queried
QueryStamps == {WindowBase, WindowBase + 1}

\* ping_records after n inserts, with timestamps that do not decrease
StoredLogs ==
  UNION {{[i \in 1..n |->
             Row(i, [timestamp |-> stamps[i],
                     responseData |-> <<"ok">>,
                     statusCode |-> outcomes[i].statusCode,
                     responseTime |-> outcomes[i].responseTime,
                     contentType |-> "application/json",
                     contentLength |-> 4,
                     requestType |-> "auto"])] :
            outcomes \in [1..n -> QueryOutcomes],
            stamps \in {f \in [1..n -> QueryStamps] :
                          \A i \in 1..n, j \in 1..n : i < j => f[i] <= f[j]}} :
         n \in 0..MaxRows}

\* the filters the queries are issued with
QueryFilters ==
  [statusCode : {<<>>, <<0>>, <<404>>},
   minResponseTime : {<<>>, <<100>>},
   maxResponseTime : {<<>>, <<0>>, <<100>>},
   startTime : {<<>>, <<WindowBase + 1>>},
   endTime : {<<>>, <<WindowBase>>}]

\* the server with a database file that holds a stored log
InitQuery ==
  /\ db = "open"
  /\ lastClose = "none"
  /\ table \in StoredLogs
  /\ lastId = Len(table)
  /\ failures = 0
  /\ query = IdleQuery
  /\ call = IdleCall
  /\ clock = AnalysisNow
  /\ probe = [p \in ProbeIds |-> IdleProbe]
  /\ nProbes = 0
  /\ issued = 0
  /\ returned = <<>>
  /\ events = <<>>
  /\ pInterval = 0
  /\ pTimers = {}
  /\ pHandles = 0
  /\ pCleared = 0
  /\ pAtStop = {}
  /\ pAfterStop = {}
  /\ cycle = [c \in CycleIds |-> IdleCycle]
  /\ nCycles = 0
  /\ anomalies = <<>>
  /\ aInterval = 0
  /\ aTimers = {}
  /\ aHandles = 0
  /\ aCleared = 0
  /\ aAtStop = {}
  /\ aAfterStop = {}

NextQuery ==
  \/ \E limit \in 1..MaxLimit, offset \in 0..MaxOffset, filters \in QueryFilters :
       DatabaseService_getPingRecords(limit, offset, filters)
  \/ \E limit \in 1..MaxLimit, offset \in 0..MaxOffset, filters \in QueryFilters :
       Route_getPings(limit, offset, filters)
  \/ QueryCount(TRUE)
  \/ QueryPage(TRUE)

\* filtered, paginated reads of a stored log, with no write in between
SpecQuery == InitQuery /\ [][NextQuery]_vars

(* --------------- analysis and statistics of a stored window ------------- *)
\* the server with a database file that holds a stored window of fast
\* responses
InitWindowStatistics ==
  /\ InitAnalysis
  /\ db = "open"
  /\ \A i \in 1..Len(table) : table[i].responseTime = 100

NextWindowStatistics ==
  \/ AnomalyDetectionService_start
  \/ \E h \in 1..MaxStarts : AnalysisTimerFire(h)
  \/ \E c \in CycleIds : AnalysisSettle(c, TRUE)
  \/ DatabaseService_getStatistics(24)
  \/ ReadSettle(TRUE)

\* the Anomaly Analyzer and the statistics over the same stored window
SpecWindowStatistics == InitWindowStatistics /\ [][NextWindowStatistics]_vars

(* ------------------- queries while records are inserted ----------------- *)
\* the filters of the queries issued while the scheduler inserts
WriteFilters ==
  {f \in QueryFilters :
     /\ f.statusCode \in {<<>>, <<0>>}
     /\ f.maxResponseTime \in {<<>>, <<0>>}
     /\ f.minResponseTime = <<>> /\ f.startTime = <<>> /\ f.endTime = <<>>}

\* the server with a database file that holds at most one record
InitQueryWrites ==
  /\ InitQuery
  /\ Len(table) <= 1

NextQueryWrites ==
  \/ \E limit \in 1..MaxLimit, offset \in 0..MaxOffset, filters \in WriteFilters :
       DatabaseService_getPingRecords(limit, offset, filters)
  \/ QueryCount(TRUE)
  \/ QueryPage(TRUE)
  \/ PingService_pingOnce
  \/ \E p \in ProbeIds, out \in ProducerOutcomes, d \in 1..MaxDelay : HttpSettle(p, out, d)
  \/ \E p \in ProbeIds : DbRun(p, TRUE)

\* a filtered, paginated read with inserts of the scheduler in between
SpecQueryWrites == InitQueryWrites /\ [][NextQueryWrites]_vars

(* --------------------- reads of a log of several days ------------------- *)
\* the time the reads run at: day 2, 12:00
ReadNow == 2 * MINUTES_PER_DAY + 12 * MINUTES_PER_HOUR

\* the timestamps of the rows read: 30 minutes, 90 minutes and 30 hours
\* before ReadNow
ReadStamps == {ReadNow - 30 * MINUTES_PER_HOUR, ReadNow - 90, ReadNow - 30}

\* the status code and response time (ms) of the rows read
ReadOutcomes ==
  {[statusCode |-> 200, responseTime |-> 100], [statusCode |-> 200, responseTime |-> 200],
   [statusCode |-> 500, responseTime |-> 300], [statusCode |-> 0, responseTime |-> 100]}

\* ping_records after n inserts, with timestamps that do not decrease
ReadLogs ==
  UNION {{[i \in 1..n |->
             Row(i, [timestamp |-> stamps[i],
                     responseData |-> <<"ok">>,
                     statusCode |-> outcomes[i].statusCode,
                     responseTime |-> outcomes[i].responseTime,
                     contentType |-> "application/json",
                     contentLength |-> 4,
                     requestType |-> "auto"])] :
            outcomes \in [1..n -> ReadOutcomes],
            stamps \in {f \in [1..n -> ReadStamps] :
                          \A i \in 1..n, j \in 1..n : i < j => f[i] <= f[j]}} :
         n \in 0..MaxRows}

\* the server with a database file that holds a log of several days
InitReads ==
  /\ db \in {"null", "open"}
  /\ lastClose = "none"
  /\ table \in ReadLogs
  /\ lastId = Len(table)
  /\ failures = 0
  /\ query = IdleQuery
  /\ call = IdleCall
  /\ clock = ReadNow
  /\ probe = [p \in ProbeIds |-> IdleProbe]
  /\ nProbes = 0
  /\ issued = 0
  /\ returned = <<>>
  /\ events = <<>>
  /\ pInterval = 0
  /\ pTimers = {}
  /\ pHandles = 0
  /\ pCleared = 0
  /\ pAtStop = {}
  /\ pAfterStop = {}
  /\ cycle = [c \in CycleIds |-> IdleCycle]
  /\ nCycles = 0
  /\ anomalies = <<>>
  /\ aInterval = 0
  /\ aTimers = {}
  /\ aHandles = 0
  /\ aCleared = 0
  /\ aAtStop = {}
  /\ aAfterStop = {}

NextReads ==
  \/ DatabaseService_initialize
  \/ DatabaseService_close
  \/ \E minutes \in {MINUTES_PER_HOUR, MINUTES_PER_DAY} :
       DatabaseService_getRecentRecords(minutes)
  \/ \E hours \in {1, 24} : DatabaseService_getStatistics(hours)
  \/ Route_getAnomalyStats
  \/ \E ok \in BOOLEAN : ReadSettle(ok)

\* recent records, statistics and the anomaly snapshot over a stored log
SpecReads == InitReads /\ [][NextReads]_vars

(* =============================== claims ================================ *)
\* the rows stored for attempt p
RowsOf(p) ==
  {r \in Range(table) : \E i \in 1..Len(returned) :
                          returned[i].probe = p /\ returned[i].rowid = r.id}

\* the 'newPingRecord' events published for attempt p
EventsOf(p) == {i \in 1..Len(events) : events[i].probe = p}

\* C1 as stated: the ids returned are strictly increasing in the order the
\* inserts were issued, inserts of overlapping probes included.
C1_IdsFollowIssueOrder ==
  \A i, j \in 1..Len(returned) :
    returned[i].seq < returned[j].seq => returned[i].id < returned[j].id

\* C1 amended: the ids returned are pairwise distinct and strictly increasing
\* in the order the store ran the inserts; an insert issued after another
\* resolved gets the larger id.
C1_IdsFollowExecutionOrder ==
  /\ \A i, j \in 1..Len(returned) : i < j => returned[i].id < returned[j].id
  /\ \A i, j \in 1..Len(returned) :
       returned[i].issuedBefore < returned[j].seq => returned[i].id < returned[j].id

\* C1 witness: two inserts were pending together and the later issued ran first
C1_Witness ==
  /\ Len(returned) = 2
  /\ returned[1].seq > returned[2].seq
  /\ returned[1].id < returned[2].id

\* C2: an attempt none of whose inserts was rejected stores exactly one record
\* and publishes exactly one 'newPingRecord' event by the time it ends, and
\* never more than one of either.
C2_OneRecordOneEvent ==
  \A p \in ProbeIds :
    probe[p].nFail = 0 =>
      /\ Cardinality(RowsOf(p)) <= 1
      /\ Cardinality(EventsOf(p)) <= 1
      /\ Settled(probe[p]) => Cardinality(RowsOf(p)) = 1 /\ Cardinality(EventsOf(p)) = 1

\* C2 witness: a manual attempt whose POST failed and a timer-driven one whose
\* POST resolved have both ended with their one record and one event
C2_Witness ==
  \E p, q \in ProbeIds :
    /\ Settled(probe[p]) /\ probe[p].nFail = 0 /\ probe[p].requestType = "manual"
    /\ probe[p].http.kind = "error" /\ Cardinality(RowsOf(p)) = 1
    /\ Settled(probe[q]) /\ probe[q].nFail = 0 /\ probe[q].requestType = "auto"
    /\ probe[q].http.kind = "response" /\ Cardinality(EventsOf(q)) = 1

\* the record and the event of attempt p carry the response the POST resolved with
CarriesResponse(p, x) ==
  /\ x.statusCode = probe[p].http.status
  /\ x.contentType = probe[p].http.ctype
  /\ x.responseData = JSONstringify(probe[p].http.body)

\* C3 as stated: when the POST resolved with a response, every record stored
\* and every event published for the attempt carries its status, content type
\* and serialized body.
C3_ResponseAlwaysCarried ==
  \A p \in ProbeIds :
    probe[p].http.kind = "response" =>
      /\ \A r \in RowsOf(p) : CarriesResponse(p, r)
      /\ \A i \in EventsOf(p) : CarriesResponse(p, events[i])

\* C3 amended: that holds when the insert of the record built from the
\* response was not rejected; when it was, the attempt goes on in the catch
\* block, and what it stores and publishes is the error record: statusCode 0,
\* contentType 'application/json', contentLength 0.
C3_ResponseCarriedUnlessInsertRejected ==
  \A p \in ProbeIds :
    probe[p].http.kind = "response" =>
      /\ \A r \in RowsOf(p) :
           IF probe[p].nFail = 0 THEN CarriesResponse(p, r)
           ELSE r.statusCode = 0 /\ r.contentType = "application/json"
                /\ r.contentLength = 0
      /\ \A i \in EventsOf(p) :
           IF probe[p].nFail = 0 THEN CarriesResponse(p, events[i])
           ELSE events[i].statusCode = 0 /\ events[i].contentType = "application/json"
                /\ events[i].contentLength = 0

\* C3 witness: a 201 text/html response was stored and published as it came
C3_Witness ==
  \E p \in ProbeIds :
    /\ probe[p].http.status = 201 /\ probe[p].nFail = 0
    /\ \E r \in RowsOf(p) : r.statusCode = 201 /\ r.contentType = "text/html"
    /\ EventsOf(p) # {}

\* C4: when the POST failed, the stored record has the status of the response
\* the failure carries, or 0 without one, contentType 'application/json',
\* contentLength 0 and the error message in responseData; the event carries
\* the same statusCode.
C4_FailureRecord ==
  \A p \in ProbeIds :
    probe[p].http.kind = "error" =>
      LET status == IF probe[p].http.hasResponse THEN probe[p].http.status ELSE 0
      IN /\ \A r \in RowsOf(p) :
              /\ r.statusCode = status
              /\ r.contentType = "application/json"
              /\ r.contentLength = 0
              /\ Contains(r.responseData, probe[p].http.msg)
         /\ \A i \in EventsOf(p) : events[i].statusCode = status

\* C4 witness: a failure carrying a 500 response and a failure carrying none
\* have both been stored and published
C4_Witness ==
  \E p, q \in ProbeIds :
    /\ probe[p].http.kind = "error" /\ probe[p].http.hasResponse
    /\ \E r \in RowsOf(p) : r.statusCode = 500
    /\ \E i \in EventsOf(p) : events[i].statusCode = 500
    /\ probe[q].http.kind = "error" /\ ~probe[q].http.hasResponse
    /\ \E r \in RowsOf(q) : r.statusCode = 0 /\ Contains(r.responseData, "ECONNREFUSED")

\* C5: every 'newPingRecord' event published equals, id and fields, a row of
\* the store (rows are never removed, so the insert came first), and an
\* attempt has no more events than rows.
C5_EventAfterInsert ==
  /\ \A i \in 1..Len(events) :
       \E r \in Range(table) :
         /\ r.id = events[i].id
         /\ r = Row(events[i].id, events[i])
         /\ r \in RowsOf(events[i].probe)
  /\ \A p \in ProbeIds : Cardinality(EventsOf(p)) <= Cardinality(RowsOf(p))

\* C5 witness: of two overlapping attempts the second published first, and an
\* insert was rejected on the way
C5_Witness ==
  /\ Len(events) = 2
  /\ events[1].probe = 2
  /\ \E p \in ProbeIds : probe[p].nFail > 0

\* an attempt has ended with its last insert rejected
ErrorInsertFailed(p) ==
  probe[p].pc \in {"resolved", "rejected"} /\ probe[p].nFail > 0 /\ RowsOf(p) = {}

\* C6: performPing never rejects, whatever the POST and the store do; when
\* the insert of the error record is rejected the attempt ends quietly with
\* no event, and the timer start() armed stays armed.
C6_NeverRejects ==
  /\ \A p \in ProbeIds : probe[p].pc # "rejected"
  /\ \A p \in ProbeIds : ErrorInsertFailed(p) => EventsOf(p) = {}
  /\ pInterval # 0 => pInterval \in pTimers

\* C6 witness: the insert of the error record of the first attempt was
\* rejected, and a later tick of the same timer probed and stored its record
C6_Witness ==
  \E p, q \in ProbeIds :
    /\ ErrorInsertFailed(p) /\ probe[p].pc = "resolved"
    /\ probe[q].origin = probe[p].origin /\ probe[q].origin \in pTimers
    /\ probe[q].startTime > probe[p].startTime
    /\ RowsOf(q) # {}

\* C7 as stated: start() on a running scheduler starts no attempt and arms no
\* timer; start() on a stopped one starts one attempt and arms one timer.
C7_StartIsGuarded ==
  [][PingService_start =>
       IF pInterval # 0
       THEN nProbes' = nProbes /\ pTimers' = pTimers
       ELSE nProbes' = nProbes + 1 /\ Cardinality(pTimers') = Cardinality(pTimers) + 1]_vars

\* C8 as stated: whenever stop() has returned (this.interval is null again)
\* no timer of that producer is armed, for the scheduler and the analyzer.
C8_NoTimerAfterStop ==
  /\ pInterval = 0 => pTimers = {}
  /\ aInterval = 0 => aTimers = {}

\* C9: an attempt in flight when stop() cleared the timer is not cancelled:
\* it is still an attempt in flight or ended, and once ended, its inserts
\* not rejected, it has stored its one record and published its one event.
C9_StopLeavesInFlight ==
  \A p \in pAtStop :
    /\ InFlight(probe[p]) \/ Settled(probe[p])
    /\ (Settled(probe[p]) /\ probe[p].nFail = 0) =>
         /\ Cardinality(RowsOf(p)) = 1
         /\ \E i \in EventsOf(p) : \E r \in RowsOf(p) : events[i].id = r.id

\* C9 witness: two attempts were in flight when stop() returned, one awaiting
\* its POST and one its insert; both have ended since, record stored and
\* event published, with no timer armed
C9_Witness ==
  /\ pInterval = 0 /\ pTimers = {}
  /\ pAtStop = {1, 2}
  /\ \A p \in pAtStop : Settled(probe[p]) /\ RowsOf(p) # {} /\ EventsOf(p) # {}

\* C10 as stated: after stop() returns at most one cycle of the producer
\* completes and writes or publishes.
C10_AtMostOneStraggler ==
  /\ Cardinality({p \in pAfterStop : RowsOf(p) # {} \/ EventsOf(p) # {}}) <= 1
  /\ Cardinality({c \in aAfterStop : cycle[c].emitted > 0}) <= 1

\* C10 amended: the cycles of the cleared timer that complete after stop()
\* returned are cycles that were in flight when it returned: stop() lets each
\* of them finish, however many overlapped, and its timer starts no other.
C10_StragglersWereInFlight ==
  /\ pAfterStop \subseteq pAtStop
  /\ aAfterStop \subseteq aAtStop

\* C10 witness: two attempts of the cleared timer completed and stored their
\* records after stop() returned
C10_Witness ==
  /\ pInterval = 0
  /\ Cardinality({p \in pAfterStop : RowsOf(p) # {} /\ EventsOf(p) # {}}) = 2

(* ---------------------- claims on the Anomaly Analyzer ------------------ *)
\* the analysis cycles that read the window and ended
Analyzed == {c \in CycleIds : cycle[c].pc = "resolved" /\ cycle[c].readOk}

\* the places of the events of one type among the events evs
TypeEvents(evs, type) == {k \in 1..Len(evs) : evs[k].type = type}

\* how many of the records at the places I answered with a status >= 400
ErrorCount(read, I) == Cardinality({i \in I : read[i].statusCode >= 400})

\* C11: a cycle that read fewer than 10 records publishes no anomaly event
\* and ends without an error.
C11_InsufficientDataSkip ==
  \A c \in CycleIds :
    (cycle[c].readOk /\ Len(cycle[c].read) < 10)
      => cycle[c].pc = "resolved" /\ cycle[c].published = <<>>

\* a cycle skipped a window of 9 records of which 3 or more are errors
C11_Witness ==
  \E c \in Analyzed :
    /\ Len(cycle[c].read) = 9
    /\ ErrorCount(cycle[c].read, 1..9) >= 3
    /\ cycle[c].published = <<>>

\* the response time of a record in units of 100 ms (the windows drawn hold
\* multiples of 100 ms)
Hundreds(read, i) == read[i].responseTime \div 100

\* n * (responseTime - mean) of the record at place i, in units of 100 ms
Deviation(read, i) ==
  Len(read) * Hundreds(read, i)
    - SumOf([k \in 1..Len(read) |-> Hundreds(read, k)])

\* the record at place i has |responseTime - mean| / stdDev > 2.5, where
\* stdDev^2 is the mean of the squared deviations, and responseTime > 5000
LatencyOutlier(read, i) ==
  LET squares == SumOf([k \in 1..Len(read) |-> Deviation(read, k) * Deviation(read, k)])
  IN /\ squares > 0
     /\ 4 * Len(read) * Deviation(read, i) * Deviation(read, i) > 25 * squares
     /\ read[i].responseTime > 5000

\* C12: over a window of at least 10 records, a record gets exactly one
\* 'response_time' event, carrying its id, when its z-score exceeds 2.5 and
\* its response time exceeds 5000 ms, and none otherwise; a window of equal
\* response times (stdDev = 0) gets none.
C12_LatencyEventIffOutlier ==
  \A c \in Analyzed :
    LET read == cycle[c].read
        evs == cycle[c].published
    IN Len(read) >= 10 =>
         /\ \A i \in 1..Len(read) :
              Cardinality({k \in TypeEvents(evs, "response_time") :
                             evs[k].recordId = read[i].id})
                = IF LatencyOutlier(read, i) THEN 1 ELSE 0
         /\ \A k \in TypeEvents(evs, "response_time") :
              \E i \in 1..Len(read) : evs[k].recordId = read[i].id
         /\ (\A i \in 1..Len(read) : read[i].responseTime = read[1].responseTime)
              => TypeEvents(evs, "response_time") = {}

\* a cycle over 20 records of 100 ms and one of 8000 ms published exactly one
\* latency event, for the 8000 ms record
C12_Witness ==
  \E c \in Analyzed :
    LET read == cycle[c].read
        evs == cycle[c].published
    IN /\ Len(read) = 21
       /\ Cardinality({i \in 1..21 : read[i].responseTime = 100}) = 20
       /\ \E i \in 1..21 :
            /\ read[i].responseTime = 8000
            /\ \E k \in 1..Len(evs) :
                 /\ TypeEvents(evs, "response_time") = {k}
                 /\ evs[k].recordId = read[i].id

\* the places of the 20 records of the window with the latest timestamps
LatestTwenty(read) ==
  {i \in 1..Len(read) :
     Cardinality({k \in 1..Len(read) : read[k].timestamp > read[i].timestamp}) < 20}

\* C13: the burst check looks at the 20 records with the latest timestamps:
\* a 'status_code' event is published exactly when 3 or more of those
\* answered with a status >= 400.
C13_BurstExaminesLatest ==
  \A c \in Analyzed :
    LET read == cycle[c].read
    IN Len(read) >= 10 =>
         (TypeEvents(cycle[c].published, "status_code") # {}
            <=> ErrorCount(read, LatestTwenty(read)) >= 3)

\* the places the burst check examines: the last 20 of the list read
Examined(read) == {i \in 1..Len(read) : i > Len(read) - 20}

\* the burst event of a cycle, with the error rate taken over `size` records
BurstEventOver(c, size) ==
  LET read == cycle[c].read
      evs == cycle[c].published
      errors == ErrorCount(read, Examined(read))
  IN /\ Cardinality(TypeEvents(evs, "status_code")) = IF errors >= 3 THEN 1 ELSE 0
     /\ \A k \in TypeEvents(evs, "status_code") :
          /\ evs[k].value[1] * size = 100 * errors * evs[k].value[2]
          /\ evs[k].threshold = <<1, 20, 0, 1>>
          /\ evs[k].severity = IF 100 * errors >= 50 * size THEN "high"
                               ELSE IF 100 * errors >= 25 * size THEN "medium"
                                    ELSE "low"

\* C14 as stated: one 'status_code' event exactly when 3 or more of the
\* examined records are errors, with value errorCount / 20 x 100, threshold
\* 20 and the severity of that value, for windows of 10 to 19 records too.
C14_RateOverTwenty ==
  \A c \in Analyzed : Len(cycle[c].read) >= 10 => BurstEventOver(c, 20)

\* C14 amended: one 'status_code' event exactly when 3 or more of the
\* examined records are errors, with value errorCount / (number of examined
\* records) x 100, threshold 20 and the severity of that value.
C14_RateOverExamined ==
  \A c \in Analyzed :
    Len(cycle[c].read) >= 10
      => BurstEventOver(c, Cardinality(Examined(cycle[c].read)))

\* a cycle over 10 to 19 records published a burst event
C14_Witness ==
  \E c \in Analyzed :
    /\ Len(cycle[c].read) \in 10..19
    /\ TypeEvents(cycle[c].published, "status_code") # {}

\* the hour buckets of the window
Hours(read) == {read[i].timestamp \div 60 : i \in 1..Len(read)}

\* the places of the records of one hour bucket
Bucket(read, h) == {i \in 1..Len(read) : read[i].timestamp \div 60 = h}

\* the bucket holds at least 5 records and more than 30% of them are errors
HotBucket(read, h) ==
  /\ Cardinality(Bucket(read, h)) >= 5
  /\ 100 * ErrorCount(read, Bucket(read, h)) > 30 * Cardinality(Bucket(read, h))

\* the 'error_rate' events of a cycle: one for each hot bucket, none for
\* another, with threshold 30 and severity high from 50% on, else medium
HourlyEvents(c) ==
  LET read == cycle[c].read
      evs == cycle[c].published
  IN /\ \A h \in Hours(read) :
          Cardinality({k \in TypeEvents(evs, "error_rate") : evs[k].timestamp = h})
            = IF HotBucket(read, h) THEN 1 ELSE 0
     /\ \A k \in TypeEvents(evs, "error_rate") :
          LET h == evs[k].timestamp
          IN /\ h \in Hours(read)
             /\ evs[k].threshold = <<1, 30, 0, 1>>
             /\ evs[k].value[1] * Cardinality(Bucket(read, h))
                  = 100 * ErrorCount(read, Bucket(read, h)) * evs[k].value[2]
             /\ evs[k].severity
                  = IF 100 * ErrorCount(read, Bucket(read, h))
                         >= 50 * Cardinality(Bucket(read, h))
                    THEN "high" ELSE "medium"

\* C15 as stated: in every analysis cycle each hour bucket of at least 5
\* records with more than 30% errors gets exactly one 'error_rate' event,
\* and no other bucket gets one.
C15_HourlyEventsInEveryCycle == \A c \in Analyzed : HourlyEvents(c)

\* C15 amended: in every analysis cycle over at least 10 records each hour
\* bucket of at least 5 records with more than 30% errors gets exactly one
\* 'error_rate' event and no other bucket gets one; a cycle over fewer than
\* 10 records publishes none.
C15_HourlyEventsWhenAnalyzed ==
  \A c \in Analyzed :
    IF Len(cycle[c].read) >= 10 THEN HourlyEvents(c)
    ELSE TypeEvents(cycle[c].published, "error_rate") = {}

\* a cycle over several hour buckets published an event for one of them and
\* none for another
C15_Witness ==
  \E c \in Analyzed :
    LET read == cycle[c].read
        evs == cycle[c].published
    IN /\ Len(read) >= 10
       /\ \E h1, h2 \in Hours(read) :
            /\ \E k \in TypeEvents(evs, "error_rate") : evs[k].timestamp = h1
            /\ \A k \in TypeEvents(evs, "error_rate") : evs[k].timestamp # h2

\* the number of events a full analysis of the window publishes
FullAnalysisCount(read) ==
  IF Len(read) < 10 THEN 0
  ELSE Cardinality({i \in 1..Len(read) : LatencyOutlier(read, i)})
         + (IF ErrorCount(read, Examined(read)) >= 3 THEN 1 ELSE 0)
         + Cardinality({h \in Hours(read) : HotBucket(read, h)})

\* C16: a cycle never ends rejected; a cycle whose read failed publishes
\* nothing; no cycle, failed or not, disarms a timer of the analyzer; and
\* every cycle whose read succeeded, the ones after a failed cycle included,
\* publishes the events of a full analysis.
C16_CycleNeverThrows ==
  [][\A c \in CycleIds :
       (cycle[c].pc # cycle'[c].pc)
         => /\ cycle'[c].pc \in {"reading", "resolved"}
            /\ aTimers \subseteq aTimers'
            /\ (~cycle'[c].readOk => anomalies' = anomalies)
            /\ (cycle'[c].readOk
                  => Len(cycle'[c].published) = FullAnalysisCount(cycle'[c].read))]_vars

\* a cycle of a timer failed to read the store, the timer is still armed and
\* a later tick of it ran an analysis that published events
C16_Witness ==
  \E c1, c2 \in CycleIds :
    /\ c1 < c2
    /\ cycle[c1].pc = "resolved" /\ ~cycle[c1].readOk
    /\ cycle[c2].pc = "resolved" /\ cycle[c2].readOk
    /\ cycle[c2].origin = cycle[c1].origin
    /\ cycle[c1].origin \in aTimers
    /\ cycle[c2].published # <<>>

(* ------------------------ claims on filtered reads ---------------------- *)
\* the smaller of two numbers
Min(a, b) == IF a < b THEN a ELSE b

\* the number of records a page holds: min(limit, max(0, total - offset))
PageSize(limit, offset, total) == Min(limit, IF total > offset THEN total - offset ELSE 0)

\* C17: a query whose only filter is {statusCode: c} returns records of
\* status c only, as many as the page takes of them, and reports as total
\* the number of stored records of status c.
C17_StatusFilterExact ==
  \A c \in {0, 404} :
    (query.pc = "resolved" /\ query.filters = [NoFilters EXCEPT !.statusCode = <<c>>])
      => /\ \A i \in 1..Len(query.records) : query.records[i].statusCode = c
         /\ query.total = Cardinality({r \in Range(table) : r.statusCode = c})
         /\ Len(query.records) = PageSize(query.limit, query.offset, query.total)

\* the row satisfies every option the filter supplies, a supplied 0 included
MatchesSupplied(filters, r) ==
  /\ filters.statusCode # <<>> => r.statusCode = filters.statusCode[1]
  /\ filters.minResponseTime # <<>> => r.responseTime >= filters.minResponseTime[1]
  /\ filters.maxResponseTime # <<>> => r.responseTime <= filters.maxResponseTime[1]
  /\ filters.startTime # <<>> => r.timestamp >= filters.startTime[1]
  /\ filters.endTime # <<>> => r.timestamp <= filters.endTime[1]

\* C18: every option a filter supplies constrains the result, a supplied 0
\* included, and the options are ANDed: each record returned satisfies all
\* of them and total counts the stored records that do.
C18_SuppliedOptionsConstrain ==
  query.pc = "resolved"
    => /\ \A i \in 1..Len(query.records) : MatchesSupplied(query.filters, query.records[i])
       /\ query.total
            = Cardinality({r \in Range(table) : MatchesSupplied(query.filters, r)})

\* r comes before q in the order of the results: later timestamp first, and
\* of two equal timestamps the larger id first
Before(r, q) ==
  r.timestamp > q.timestamp \/ (r.timestamp = q.timestamp /\ r.id > q.id)

\* C19: the records returned are in descending order of timestamp, records
\* of equal timestamp in descending order of id.
C19_OrderedByTimestampThenId ==
  query.pc = "resolved"
    => \A i \in 1..Len(query.records), j \in 1..Len(query.records) :
         i < j => Before(query.records[i], query.records[j])

RECURSIVE Ordered(_)
\* the rows of S in the order of the results
Ordered(S) ==
  IF S = {} THEN <<>>
  ELSE LET first == CHOOSE r \in S : \A q \in S \ {r} : Before(r, q)
       IN <<first>> \o Ordered(S \ {first})

\* C20: with no write in between, a query returns the elements at the places
\* offset .. offset+limit-1 of the ordered filtered list, min(limit, max(0,
\* total - offset)) records, with total the length of that list, and GET
\* /pings reports hasMore = (offset + limit < total).
C20_PageOfOrderedFilteredList ==
  query.pc = "resolved"
    => LET list == Ordered({r \in Range(table) : MatchesSupplied(query.filters, r)})
       IN /\ query.total = Len(list)
          /\ query.records
               = SubSeq(list, query.offset + 1, Min(query.offset + query.limit, Len(list)))
          /\ Len(query.records) = PageSize(query.limit, query.offset, query.total)
          /\ query.route => (query.hasMore <=> query.offset + query.limit < query.total)

(* ----------------- claims on recent records and statistics -------------- *)
\* C21: getRecentRecords(minutes) returns exactly the stored records whose
\* timestamp is at or after now - minutes, each once, latest first.
C21_RecentExactWindow ==
  (call.op = "recent" /\ call.pc = "resolved")
    => /\ Range(call.rows) = {r \in Range(table) : r.timestamp >= clock - call.arg}
       /\ Len(call.rows) = Cardinality(Range(call.rows))
       /\ \A i \in 1..Len(call.rows), j \in 1..Len(call.rows) :
            i < j => call.rows[i].timestamp >= call.rows[j].timestamp

\* the records the statement of the last getStatistics aggregated
Aggregated == StatisticsRows(table, clock, call.arg)

\* n is the quotient num / den rounded to the nearest integer, a half upwards
Rounds(n, num, den) == 2 * num - den < 2 * n * den /\ 2 * n * den <= 2 * num + den

C23_StatisticsOfEmptyWindow ==
  (call.op = "statistics" /\ call.pc = "resolved" /\ Aggregated = {})
    => /\ call.stats.totalRequests = 0
       /\ call.stats.averageResponseTime = Number(0)
       /\ call.stats.successRate = 0
       /\ DOMAIN call.stats.statusCodeDistribution = {}

\* C24: close() never ends in an error, on a store already closed or never
\* opened either.
C24_CloseIdempotent == lastClose # "rejected"

\* C25: a read invoked while the store is not open (before initialize() or
\* after close()) fails with 'Database not initialized' and returns no data.
C25_NotOpenIsUnavailable ==
  (call.op \in {"recent", "statistics"} /\ call.pc \in {"resolved", "rejected"}
     /\ call.dbAtIssue # "open")
    => /\ call.pc = "rejected"
       /\ call.error = "Database not initialized"
       /\ call.rows = <<>>

\* the stored records of the last 60 minutes
LastHour == {r \in Range(table) : r.timestamp >= clock - 60}

\* C26: GET /anomaly-stats answers with the number of records of the last
\* 60 minutes as count and totalRequests, the mean, the smallest and the
\* largest of their response times, and the percentage of them with a
\* status >= 400 as errorRate.
C26_SnapshotOfLastHour ==
  (call.op = "anomaly-stats" /\ call.pc = "resolved")
    => /\ call.snapshot.count = Cardinality(LastHour)
       /\ call.snapshot.totalRequests = Cardinality(LastHour)
       /\ LastHour # {}
            => /\ call.snapshot.mean * Cardinality(LastHour) = SumResponseTime(LastHour)
               /\ \E r \in LastHour : call.snapshot.min = r.responseTime
               /\ \A r \in LastHour : call.snapshot.min <= r.responseTime
               /\ \E r \in LastHour : call.snapshot.max = r.responseTime
               /\ \A r \in LastHour : call.snapshot.max >= r.responseTime
               /\ call.snapshot.errorRate * Cardinality(LastHour)
                    = 100 * Cardinality({r \in LastHour : r.statusCode >= 400})

(* ------------------------- claims on the timers ------------------------- *)
\* C27: each producer has at most one repeating timer armed at any time,
\* and while it is stopped (this.interval stays null) no tick starts a probe
\* or an analysis.
C27_AtMostOneTimer ==
  /\ [](Cardinality(pTimers) <= 1 /\ Cardinality(aTimers) <= 1)
  /\ [][/\ (pInterval = 0 /\ pInterval' = 0) => nProbes' = nProbes
        /\ (aInterval = 0 /\ aInterval' = 0) => nCycles' = nCycles]_vars

(* ---------------- claims on queries with inserts in between ------------- *)
\* the number of records of a log that satisfy every supplied option
MatchCount(log, filters) ==
  Cardinality({r \in Range(log) : MatchesSupplied(filters, r)})

\* C28: whatever inserts run between the count and the page of a query,
\* every record returned matches the filter and the total lies between the
\* number of matching records when the query was issued and that number when
\* it resolved; with no insert in between the total is that number and
\* offset + the number of records returned is at most the total.
C28_TotalBetweenSnapshots ==
  query.pc = "resolved"
    => /\ \A i \in 1..Len(query.records) : MatchesSupplied(query.filters, query.records[i])
       /\ MatchCount(query.asked, query.filters) <= query.total
       /\ query.total <= MatchCount(query.answered, query.filters)
       /\ query.asked = query.answered
            => /\ query.total = MatchCount(query.answered, query.filters)
               /\ query.offset + Len(query.records) <= query.total

(* ------------------- claims on windows and their cycles ----------------- *)
\* C29: records of status 0 are successes for getStatistics and no errors
\* for the analyzer: over a window of records of status 0 only a cycle
\* publishes no 'status_code' and no 'error_rate' event, and the statistics
\* have successRate 100.
C29_NoResponseIsNoError ==
  /\ \A c \in Analyzed :
       (\A i \in 1..Len(cycle[c].read) : cycle[c].read[i].statusCode = 0)
         => /\ TypeEvents(cycle[c].published, "status_code") = {}
            /\ TypeEvents(cycle[c].published, "error_rate") = {}
  /\ (call.op = "statistics" /\ call.pc = "resolved" /\ Aggregated # {}
        /\ \A r \in Aggregated : r.statusCode = 0)
       => call.stats.successRate = 100

\* a cycle analyzed a window of 10 or more records of status 0 and the
\* statistics of that window were computed
C29_Witness ==
  /\ \E c \in Analyzed :
       /\ Len(cycle[c].read) >= 10
       /\ \A i \in 1..Len(cycle[c].read) : cycle[c].read[i].statusCode = 0
       /\ cycle[c].published = <<>>
  /\ call.op = "statistics" /\ call.pc = "resolved"
  /\ Cardinality(Aggregated) >= 10
  /\ \A r \in Aggregated : r.statusCode = 0
  /\ call.stats.successRate = 100

\* the latency and hourly events among the events evs, in their order
Recomputed(evs) == SelectSeq(evs, LAMBDA e : e.type \in {"response_time", "error_rate"})

\* C30: two cycles that read the same records publish the same latency and
\* hourly events in the same order, whatever was published before, and a
\* cycle that ends leaves the stored records as they are.
C30_CyclesAreStateless ==
  /\ [](\A c1, c2 \in Analyzed :
          cycle[c1].read = cycle[c2].read
            => Recomputed(cycle[c1].published) = Recomputed(cycle[c2].published))
  /\ [][(\E c \in CycleIds : cycle'[c].pc # cycle[c].pc) => table' = table]_vars

\* two cycles read the same window and each published the latency event of
\* the same record
C30_Witness ==
  \E c1, c2 \in Analyzed :
    /\ c1 # c2
    /\ cycle[c1].read = cycle[c2].read
    /\ \E k1 \in TypeEvents(cycle[c1].published, "response_time"),
          k2 \in TypeEvents(cycle[c2].published, "response_time") :
         cycle[c1].published[k1].recordId = cycle[c2].published[k2].recordId
    /\ Len(anomalies) = Len(cycle[c1].published) + Len(cycle[c2].published)

====
